---- MODULE Spec2Model ----
(***************************************************************************)
(* Tic Tac Toe with time travel (src/src/App.js).                          *)
(*                                                                         *)
(* The Game component owns two pieces of React state, history (a list of   *)
(* board snapshots) and currentMove (an index into it).  The only two      *)
(* interactions are a click on one of the nine squares (Board.handleClick, *)
(* which may call Game.handlePlay through the onPlay prop) and a click on  *)
(* one of the move-list buttons (Game.jumpTo).  Each interaction runs to   *)
(* completion and React batches the state setters of one handler, so one   *)
(* interaction is one step of Spec and SpecDeep.  SpecSteps takes the same *)
(* handlers one statement at a time, with the setters queueing values      *)
(* until the render that follows the handler.                              *)
(*                                                                         *)
(* JavaScript arrays are 0-based.  A board is a function on 0..8; history  *)
(* is a TLA+ sequence, so JavaScript history[j] is history[j + 1] here     *)
(* (see nth).  JavaScript null is the string "null".                       *)
(***************************************************************************)
EXTENDS Integers, Sequences, FiniteSets

VARIABLES
    history,      \* Game: useState([Array(9).fill(null)])
    currentMove,  \* Game: useState(0)
    event,        \* the last interaction: what was clicked and what it called
    replay,       \* the arrays passed to onPlay so far, while no jumpTo was made
    pc,           \* where the running handler is, statement by statement
    queued,       \* the values the state setters were called with, not yet rendered
    arg,          \* calculateWinner called on its own: the argument
    ret           \* calculateWinner called on its own: the value returned

vars == <<history, currentMove, event, replay, pc, queued, arg, ret>>

\* The largest index a move is recorded at in the explored games.
MaxMoves == 6

\* The squares that are clicked in the explored games are 0..MaxCell.
MaxCell == 5

\* In the games explored to the full board, the second lowest empty square
\* is clicked only below index MaxWide; from there on only the lowest is.
MaxWide == 7

null == "null"

Marks == {"X", "O"}

Cells == 0..8

\* Every array of 9 values over {null, "X", "O"}.
Snapshots == [Cells -> Marks \cup {null}]

\* Array(9).fill(null)
EmptyBoard == [c \in Cells |-> null]

\* JavaScript arr[j] of a sequence.
nth(arr, j) == arr[j + 1]

----------------------------------------------------------------------------
(* calculateWinner                                                         *)

lines_noAntiDiagonal ==
    << <<0, 1, 2>>, <<3, 4, 5>>, <<6, 7, 8>>,
       <<0, 3, 6>>, <<1, 4, 7>>, <<2, 5, 8>>,
       <<0, 4, 8>>, <<2, 4, 5>> >>

lines ==
    << <<0, 1, 2>>, <<3, 4, 5>>, <<6, 7, 8>>,
       <<0, 3, 6>>, <<1, 4, 7>>, <<2, 5, 8>>,
       <<0, 4, 8>>, <<2, 4, 6>> >>

\* The for loop of calculateWinner from iteration i on: the first line, in
\* the order of the table, whose three squares hold the same truthy value
\* decides; falling off the end returns null.
RECURSIVE winnerFrom(_, _)
winnerFrom(squares, i) ==
    IF i < Len(lines)
    THEN LET a == nth(lines, i)[1]
             b == nth(lines, i)[2]
             c == nth(lines, i)[3]
         IN  IF squares[a] # null /\ squares[a] = squares[b] /\ squares[a] = squares[c]
             THEN squares[a]
             ELSE winnerFrom(squares, i + 1)
    ELSE null

calculateWinner(squares) == winnerFrom(squares, 0)

----------------------------------------------------------------------------
(* Game: derived values of a render                                        *)

xIsNext_fromLength == Len(history) % 2 = 1

xIsNext == currentMove % 2 = 0

currentSquares_lastEntry == nth(history, Len(history) - 1)

currentSquares == nth(history, currentMove)

----------------------------------------------------------------------------
(* Board: the status line.  A string built by + is the tuple of its parts.  *)

\* const winner = calculateWinner(squares);
winner == calculateWinner(currentSquares)

status_ignoresWinner == <<"Next player: ", IF xIsNext THEN "X" ELSE "O">>

status ==
    IF winner # null
    THEN <<"Winner: ", winner>>
    ELSE <<"Next player: ", IF xIsNext THEN "X" ELSE "O">>

----------------------------------------------------------------------------
(* Game.handlePlay                                                         *)

nextHistory_noTruncate(h, k, nextSquares) == Append(h, nextSquares)

nextHistory_sliceShort(h, k, nextSquares) == Append(SubSeq(h, 1, k), nextSquares)

\* [...history.slice(0, currentMove + 1), nextSquares]
nextHistory(h, k, nextSquares) == Append(SubSeq(h, 1, k + 1), nextSquares)

handlePlay_indexPastEnd(nextSquares) ==
    /\ history' = nextHistory(history, currentMove, nextSquares)
    /\ currentMove' = Len(nextHistory(history, currentMove, nextSquares))

handlePlay(nextSquares) ==
    /\ history' = nextHistory(history, currentMove, nextSquares)
    /\ currentMove' = Len(nextHistory(history, currentMove, nextSquares)) - 1

----------------------------------------------------------------------------
(* Board.handleClick                                                       *)

placed_swapped(squares, i, xNext) ==
    [squares EXCEPT ![i] = IF xNext THEN "O" ELSE "X"]

\* const nextSquares = squares.slice(); nextSquares[i] = xIsNext ? "X" : "O";
placed(squares, i, xNext) ==
    [squares EXCEPT ![i] = IF xNext THEN "X" ELSE "O"]

\* What an interaction leaves in event: its kind, its argument and the calls
\* it made to onPlay.
Interaction(type, a, calls) == [type |-> type, arg |-> a, onPlay |-> calls]

\* One call of onPlay: the array passed, history.length when the call was
\* made, the kind of the interaction that came before the click, and the
\* winner of the last entry of history when the call was made.
Call(nextSquares) ==
    [squares |-> nextSquares, len |-> Len(history), after |-> event.type,
     over |-> calculateWinner(nth(history, Len(history) - 1))]

Rejects_ignoresWinner(squares, i) == squares[i] # null

Rejects_ignoresOccupied(squares, i) == calculateWinner(squares) # null

\* if (squares[i] || calculateWinner(squares)) return;
Rejects(squares, i) == squares[i] # null \/ calculateWinner(squares) # null

\* The record of a session played without jumpTo: every array passed to
\* onPlay, in order.  The first jumpTo ends the record.
Replayed(r, nextSquares) ==
    [r EXCEPT !.moves = IF r.straight THEN Append(r.moves, nextSquares) ELSE <<>>]

HandleClickRejected(i) ==
    /\ Rejects(currentSquares, i)
    /\ event' = Interaction("click", i, <<>>)
    /\ UNCHANGED <<history, currentMove, replay, pc, queued, arg, ret>>

HandleClickAccepted(i) ==
    /\ ~Rejects(currentSquares, i)
    /\ handlePlay(placed(currentSquares, i, xIsNext))
    /\ event' = Interaction("click", i, <<Call(placed(currentSquares, i, xIsNext))>>)
    /\ replay' = Replayed(replay, placed(currentSquares, i, xIsNext))
    /\ UNCHANGED <<pc, queued, arg, ret>>

HandleClick(i) == HandleClickRejected(i) \/ HandleClickAccepted(i)

----------------------------------------------------------------------------
(* Game.jumpTo, bound to the buttons of history.map                        *)

description_startAtOne(move) ==
    IF move > 1 THEN <<"Go to move #", move>> ELSE <<"Go to game start">>

\* move > 0 ? `Go to move #${move}` : "Go to game start"
description(move) ==
    IF move > 0 THEN <<"Go to move #", move>> ELSE <<"Go to game start">>

\* One <li> of the move list: its key, the text of its button and the
\* argument its onClick passes to jumpTo.
Button(move) == [key |-> move, description |-> description(move), onClick |-> move]

moves_onePastEnd == [n \in 1..(Len(history) + 1) |-> Button(n - 1)]

\* history.map((squares, move) => ...): one button for every entry.
moves == [n \in 1..Len(history) |-> Button(n - 1)]

JumpTo_truncates(nextMove) ==
    /\ currentMove' = nextMove
    /\ history' = SubSeq(history, 1, nextMove + 1)
    /\ event' = Interaction("jumpTo", nextMove, <<>>)
    /\ replay' = [straight |-> FALSE, moves |-> <<>>]
    /\ UNCHANGED <<pc, queued, arg, ret>>

JumpTo(nextMove) ==
    /\ currentMove' = nextMove
    /\ event' = Interaction("jumpTo", nextMove, <<>>)
    /\ replay' = [straight |-> FALSE, moves |-> <<>>]
    /\ UNCHANGED <<history, pc, queued, arg, ret>>

----------------------------------------------------------------------------
(* The session                                                             *)

\* No state setter has been called since the last render.
NoUpdates == [history |-> <<>>, currentMove |-> <<>>]

\* The lowest square of S, if it has one.
Lowest(S) == {i \in S : \A j \in S : i <= j}

\* The lowest and the second lowest square of S.
TwoLowest(S) == LET T == S IN Lowest(T) \cup Lowest(T \ Lowest(T))

\* The squares of the displayed snapshot that are empty, and those that
\* are not.
EmptySquares == {i \in Cells : currentSquares[i] = null}

OccupiedSquares == {i \in Cells : currentSquares[i] # null}

\* The squares clicked in the explored games: the empty ones among
\* 0..MaxCell and the two lowest occupied ones.
Clicked == {i \in EmptySquares : i <= MaxCell} \cup TwoLowest(OccupiedSquares)

Init ==
    /\ history = <<EmptyBoard>>
    /\ currentMove = 0
    /\ event = [type |-> "init", arg |-> 0, onPlay |-> <<>>]
    /\ replay = [straight |-> TRUE, moves |-> <<>>]
    /\ pc = "idle"
    /\ queued = NoUpdates
    /\ arg = EmptyBoard
    /\ ret = "pending"

\* The clicks of the explored games: a click that records a move is made
\* only below index MaxMoves.
Explored(i) == IF currentMove < MaxMoves THEN TRUE ELSE Rejects(currentSquares, i)

Next ==
    \/ \E i \in Clicked : Explored(i) /\ HandleClick(i)
    \/ \E button \in {moves[n] : n \in DOMAIN moves} : JumpTo(button.onClick)

Spec == Init /\ [][Next]_vars

----------------------------------------------------------------------------
(* The session played to the full board                                    *)

\* The squares clicked in the games explored to the full board: the lowest
\* empty one, below index MaxWide the second lowest empty one too, and the
\* two lowest occupied ones.
Offered ==
    (IF currentMove < MaxWide THEN TwoLowest(EmptySquares) ELSE Lowest(EmptySquares))
        \cup TwoLowest(OccupiedSquares)

NextDeep ==
    \/ \E i \in Offered : HandleClick(i)
    \/ \E button \in {moves[n] : n \in DOMAIN moves} : JumpTo(button.onClick)

SpecDeep == Init /\ [][NextDeep]_vars

----------------------------------------------------------------------------
(* The session, one statement of a handler at a time.  A click handler     *)
(* runs to its end before another is dispatched; a state setter called in  *)
(* it queues a value, and React renders the queued values of a handler     *)
(* together when the handler has returned.  history and currentMove are    *)
(* the values of the last render, which the handlers close over.           *)

afterSetHistory_returns == "render"

\* The statement of handlePlay after setHistory(nextHistory).
afterSetHistory == "setCurrentMove"

\* handleClick(i) up to its return, or through onPlay into handlePlay up to
\* and including setHistory(nextHistory).
ClickStep(i) ==
    /\ pc = "idle"
    /\ IF Rejects(currentSquares, i)
       THEN /\ event' = Interaction("click", i, <<>>)
            /\ UNCHANGED <<replay, pc, queued>>
       ELSE /\ event' = Interaction("click", i, <<Call(placed(currentSquares, i, xIsNext))>>)
            /\ replay' = Replayed(replay, placed(currentSquares, i, xIsNext))
            /\ queued' = [queued EXCEPT !.history =
                   <<nextHistory(history, currentMove, placed(currentSquares, i, xIsNext))>>]
            /\ pc' = afterSetHistory
    /\ UNCHANGED <<history, currentMove, arg, ret>>

\* setCurrentMove(nextHistory.length - 1), then handlePlay and handleClick
\* return.
SetCurrentMoveStep ==
    /\ pc = "setCurrentMove"
    /\ queued' = [queued EXCEPT !.currentMove = <<Len(queued.history[1]) - 1>>]
    /\ pc' = "render"
    /\ UNCHANGED <<history, currentMove, event, replay, arg, ret>>

\* jumpTo(nextMove): setCurrentMove(nextMove), then it returns.
JumpStep(nextMove) ==
    /\ pc = "idle"
    /\ event' = Interaction("jumpTo", nextMove, <<>>)
    /\ replay' = [straight |-> FALSE, moves |-> <<>>]
    /\ queued' = [queued EXCEPT !.currentMove = <<nextMove>>]
    /\ pc' = "render"
    /\ UNCHANGED <<history, currentMove, arg, ret>>

\* Game is rendered with the queued values; the next click meets the
\* handlers of this render.
Render ==
    /\ pc = "render"
    /\ history' = IF queued.history # <<>> THEN queued.history[1] ELSE history
    /\ currentMove' = IF queued.currentMove # <<>> THEN queued.currentMove[1] ELSE currentMove
    /\ queued' = NoUpdates
    /\ pc' = "idle"
    /\ UNCHANGED <<event, replay, arg, ret>>

NextSteps ==
    \/ \E i \in Offered : Explored(i) /\ ClickStep(i)
    \/ \E button \in {moves[n] : n \in DOMAIN moves} : JumpStep(button.onClick)
    \/ SetCurrentMoveStep
    \/ Render

SpecSteps == Init /\ [][NextSteps]_vars

----------------------------------------------------------------------------
(* calculateWinner on every snapshot                                       *)

InitWinner ==
    /\ history = <<EmptyBoard>>
    /\ currentMove = 0
    /\ event = [type |-> "init", arg |-> 0, onPlay |-> <<>>]
    /\ replay = [straight |-> TRUE, moves |-> <<>>]
    /\ pc = "idle"
    /\ queued = NoUpdates
    /\ arg \in Snapshots
    /\ ret = "pending"

CallCalculateWinner ==
    /\ ret = "pending"
    /\ ret' = calculateWinner(arg)
    /\ UNCHANGED <<history, currentMove, event, replay, pc, queued, arg>>

NextWinner == CallCalculateWinner

SpecWinner == InitWinner /\ [][NextWinner]_vars

----------------------------------------------------------------------------
(* Properties                                                              *)

\* The 3 rows, 3 columns and 2 diagonals of the 3x3 grid, by arithmetic.
WinningTriples ==
    {<<3 * r, 3 * r + 1, 3 * r + 2>> : r \in 0..2}
        \cup {<<c, c + 3, c + 6>> : c \in 0..2}
        \cup {<<0, 4, 8>>, <<2, 4, 6>>}

UniformTriple(s, t, m) == s[t[1]] = m /\ s[t[2]] = m /\ s[t[3]] = m

IsEven(n) == \E m \in 0..n : n = 2 * m

\* The interaction e was a click that called onPlay.
Accepted(e) == e.type = "click" /\ e.onPlay # <<>>

\* C1: for every snapshot, calculateWinner returns a mark iff some winning
\* triple is uniform and non-empty, the mark returned is the mark of such a
\* triple, and it returns null iff no triple is uniform and non-empty.
C1_WinnerIffUniformTriple ==
    ret # "pending" =>
        /\ ret \in Marks \cup {null}
        /\ ret \in Marks <=> \E t \in WinningTriples, m \in Marks : UniformTriple(arg, t, m)
        /\ ret \in Marks => \E t \in WinningTriples : UniformTriple(arg, t, ret)
        /\ ret = null <=> ~\E t \in WinningTriples, m \in Marks : UniformTriple(arg, t, m)

C1_Witness ==
    /\ ret = "O"
    /\ UniformTriple(arg, <<2, 4, 6>>, "O")
    /\ \A t \in WinningTriples \ {<<2, 4, 6>>}, m \in Marks : ~UniformTriple(arg, t, m)

\* C2: a move committed right after jumpTo(k) leaves history with k + 2
\* entries, the last of which is the snapshot committed, however many
\* entries history had beyond k + 1.
C2_Branching ==
    [][(event.type = "jumpTo" /\ Accepted(event')) =>
          /\ Len(history') = event.arg + 2
          /\ nth(history', event.arg + 1) = event'.onPlay[1].squares]_vars

\* 3 moves, jumpTo(1), one move: 4 entries before, 3 after.
C2_Witness ==
    /\ Accepted(event)
    /\ event.onPlay[1].after = "jumpTo"
    /\ event.onPlay[1].len = 4
    /\ Len(history) = 3
    /\ nth(history, 2) = event.onPlay[1].squares

\* C3: right after every committed move history.length is currentMove + 1,
\* and currentMove is one more than it was.
C3_LengthIsIndexPlusOne ==
    [][Accepted(event') =>
          /\ Len(history') = currentMove' + 1
          /\ currentMove' = currentMove + 1]_vars

C3_Witness ==
    /\ Accepted(event)
    /\ event.onPlay[1].len > Len(history)
    /\ Len(history) = currentMove + 1

\* C4: jumpTo(index) for an existing entry sets currentMove to index and
\* leaves history as it was.
C4_JumpToKeepsHistory ==
    [][event'.type = "jumpTo" =>
          /\ event'.arg \in 0..(Len(history) - 1)
          /\ currentMove' = event'.arg
          /\ history' = history]_vars

C4_Witness ==
    /\ event.type = "jumpTo"
    /\ event.arg = 0
    /\ currentMove = 0
    /\ Len(history) = 4

\* C5: a click on an occupied square, or on any square of a snapshot that
\* has a winner, calls nothing and changes neither history nor currentMove.
C5_RejectedClickIsNoOp ==
    [][\A i \in Cells :
          (/\ event'.type = "click"
           /\ event'.arg = i
           /\ (currentSquares[i] # null \/ calculateWinner(currentSquares) # null))
          => (/\ event'.onPlay = <<>>
              /\ history' = history
              /\ currentMove' = currentMove)]_vars

\* A click on an empty square of a decided board that did nothing.
C5_Witness ==
    /\ event.type = "click"
    /\ event.onPlay = <<>>
    /\ currentSquares[event.arg] = null
    /\ calculateWinner(currentSquares) \in Marks

\* C6: an accepted click on square i commits the displayed snapshot with
\* square i set to X when the index is even and to O when it is odd, and
\* every other square as it was; it is accepted only on an empty square of
\* an undecided snapshot.
C6_AcceptedClickPlacesMark ==
    [][Accepted(event') =>
          LET i == event'.arg
              s == event'.onPlay[1].squares
          IN  /\ currentSquares[i] = null
              /\ calculateWinner(currentSquares) = null
              /\ \A c \in Cells \ {i} : s[c] = currentSquares[c]
              /\ s[i] = (IF IsEven(currentMove) THEN "X" ELSE "O")
              /\ nth(history', currentMove + 1) = s]_vars

\* From the empty board a click on square 4: X at 4, no winner, O is next.
C6_Witness ==
    /\ Accepted(event)
    /\ event.arg = 4
    /\ history = <<EmptyBoard, [EmptyBoard EXCEPT ![4] = "X"]>>
    /\ currentMove = 1
    /\ calculateWinner(currentSquares) = null
    /\ ~xIsNext

\* C7: currentMove is always an index of history, and jumpTo is only ever
\* called with an index of history.
C7_IndexInRange ==
    /\ currentMove \in Int
    /\ 0 <= currentMove
    /\ currentMove <= Len(history) - 1
    /\ event.type = "jumpTo" => event.arg \in 0..(Len(history) - 1)

C7_Witness ==
    /\ event.type = "jumpTo"
    /\ 0 < currentMove
    /\ currentMove < Len(history) - 1

\* C8: a committed move leaves entries 0..currentMove of history as they
\* were, every other interaction leaves the whole of history as it was, and
\* a move committed at the last index only appends.
C8_StoredSnapshotsImmutable ==
    [][/\ \A j \in 0..currentMove :
            j < Len(history') /\ nth(history', j) = nth(history, j)
       /\ ~Accepted(event') => history' = history
       /\ (Accepted(event') /\ currentMove = Len(history) - 1) =>
            /\ Len(history') = Len(history) + 1
            /\ SubSeq(history', 1, Len(history)) = history]_vars

\* A move committed at index 2 of a 6-entry history: 3 kept, 3 discarded.
C8_Witness ==
    /\ Accepted(event)
    /\ event.onPlay[1].len = 6
    /\ Len(history) = 4

\* C9: X is next iff currentMove is even, whatever history holds, and every
\* accepted move flips the turn.
C9_TurnFromIndexParity ==
    /\ [](xIsNext <=> IsEven(currentMove))
    /\ [][Accepted(event') => (xIsNext' <=> ~xIsNext)]_vars

\* After jumpTo(1) in a 3-entry history O is next.
C9_Witness ==
    /\ event.type = "jumpTo"
    /\ currentMove = 1
    /\ Len(history) = 3
    /\ ~xIsNext

\* C10: the session starts with history = [empty board] and currentMove = 0,
\* and history always has a first entry, which is the empty board.
C10_StartsEmpty ==
    /\ event.type = "init" => (history = <<[c \in Cells |-> null]>> /\ currentMove = 0)
    /\ Len(history) >= 1
    /\ \A c \in Cells : nth(history, 0)[c] = null

\* A move committed from index 0 of a 3-entry history.
C10_Witness ==
    /\ Accepted(event)
    /\ event.onPlay[1].len = 3
    /\ currentMove = 1

\* C11: while no jumpTo has been made, history is the empty board followed
\* by the arrays committed, in the order they were committed, and
\* currentMove is their number.
C11_NonBranchingReplay ==
    replay.straight =>
        /\ history = <<[c \in Cells |-> null]>> \o replay.moves
        /\ currentMove = Len(replay.moves)

\* Three moves committed one after another from the start.
C11_Witness ==
    /\ replay.straight
    /\ Len(replay.moves) = 3
    /\ Accepted(event)
    /\ event.onPlay[1].squares = replay.moves[3]

\* C12: the status line is "Winner: m" when calculateWinner returns the
\* mark m for the displayed snapshot, and otherwise "Next player: t" with t
\* the mark of the parity of currentMove; it is exactly one of the two.
C12_StatusLine ==
    /\ calculateWinner(currentSquares) \in Marks =>
            status = <<"Winner: ", calculateWinner(currentSquares)>>
    /\ calculateWinner(currentSquares) = null =>
            status = <<"Next player: ", IF IsEven(currentMove) THEN "X" ELSE "O">>
    /\ status[1] = "Winner: " <=>
            \E t \in WinningTriples, m \in Marks : UniformTriple(currentSquares, t, m)
    /\ status[1] \in {"Winner: ", "Next player: "}

\* O has won at index 6, where the parity of the index says X is next.
C12_Witness ==
    /\ status = <<"Winner: ", "O">>
    /\ xIsNext
    /\ currentMove = 6

\* C13: the move list has one entry per entry of history, entry 0 reads
\* "Go to game start", entry j > 0 reads "Go to move #j", selecting entry j
\* calls jumpTo(j), and the list changes only when history does.
C13_MoveListProjection ==
    /\ [](/\ Len(moves) = Len(history)
          /\ \A j \in 0..(Len(history) - 1) :
                /\ nth(moves, j).description =
                       (IF j = 0 THEN <<"Go to game start">> ELSE <<"Go to move #", j>>)
                /\ nth(moves, j).onClick = j)
    /\ [][/\ history' = history => moves' = moves
          /\ event'.type = "jumpTo" =>
                \E n \in DOMAIN moves :
                    moves[n].onClick = event'.arg /\ currentMove' = event'.arg]_vars

\* Four entries listed while the first one is displayed.
C13_Witness ==
    /\ Len(moves) = 4
    /\ nth(moves, 0).description = <<"Go to game start">>
    /\ nth(moves, 3).description = <<"Go to move #", 3>>
    /\ event.type = "jumpTo"
    /\ currentMove = 0

\* The last entry of history has a winner.
TipWon == \E t \in WinningTriples, m \in Marks :
              UniformTriple(nth(history, Len(history) - 1), t, m)

\* C15: once the last entry of history is won, a click on any empty square
\* of an earlier displayed entry k is accepted and commits a snapshot at
\* index k + 1, and while the won last entry is displayed every click is
\* rejected.
C15_DecidedIsDerived ==
    /\ [](TipWon =>
            \A i \in Cells :
                /\ (currentMove < Len(history) - 1 /\ currentSquares[i] = null)
                        => ENABLED HandleClickAccepted(i)
                /\ currentMove = Len(history) - 1
                        => (~ENABLED HandleClickAccepted(i) /\ ENABLED HandleClickRejected(i)))
    /\ [][(TipWon /\ event'.type = "click") =>
            IF currentMove < Len(history) - 1 /\ currentSquares[event'.arg] = null
            THEN /\ Accepted(event')
                 /\ Len(history') = currentMove + 2
                 /\ currentMove' = currentMove + 1
                 /\ nth(history', currentMove + 1) = event'.onPlay[1].squares
            ELSE /\ event'.onPlay = <<>>
                 /\ history' = history
                 /\ currentMove' = currentMove]_vars

\* A move committed at an earlier index right after jumping back from a won
\* last entry.
C15_Witness ==
    /\ Accepted(event)
    /\ event.onPlay[1].over \in Marks
    /\ event.onPlay[1].after = "jumpTo"
    /\ currentMove < event.onPlay[1].len - 1

\* C16: no entry of history but the last has a winner.
C16_OnlyLastEntryDecided ==
    \A j \in 0..(Len(history) - 2) :
        /\ calculateWinner(nth(history, j)) = null
        /\ ~\E t \in WinningTriples, m \in Marks : UniformTriple(nth(history, j), t, m)

\* A won last entry behind the displayed one, reached by branching.
C16_Witness ==
    /\ TipWon
    /\ Len(history) >= 6
    /\ currentMove < Len(history) - 1
    /\ replay.straight = FALSE

NumberOf(s, m) == Cardinality({c \in Cells : s[c] = m})

\* C17: entry n of history holds n marks, ceil(n/2) of them X and
\* floor(n/2) of them O, and for n > 0 differs from entry n - 1 in exactly
\* one square, which was empty there; so history has at most 10 entries and
\* currentMove is at most 9.
C17_EntryHoldsIndexMarks ==
    /\ \A n \in 0..(Len(history) - 1) :
          /\ NumberOf(nth(history, n), "X") = (n + 1) \div 2
          /\ NumberOf(nth(history, n), "O") = n \div 2
          /\ NumberOf(nth(history, n), null) = 9 - n
          /\ n > 0 =>
                \E c \in Cells :
                    /\ nth(history, n - 1)[c] = null
                    /\ nth(history, n)[c] # null
                    /\ \A d \in Cells \ {c} : nth(history, n)[d] = nth(history, n - 1)[d]
    /\ Len(history) <= 10
    /\ currentMove <= 9

\* The full board: 10 entries, the last displayed.
C17_Witness ==
    /\ Len(history) = 10
    /\ currentMove = 9
    /\ NumberOf(currentSquares, null) = 0

\* C18: a winner of entry n is the mark placed by move n (X iff n is odd),
\* no entry has uniform triples of both marks, and the status line never
\* names as winner the mark whose turn the parity of currentMove says it is.
C18_WinnerMadeLastMove ==
    /\ \A n \in 0..(Len(history) - 1) :
          /\ calculateWinner(nth(history, n)) \in Marks =>
                (calculateWinner(nth(history, n)) = "X" <=> ~IsEven(n))
          /\ ~(/\ \E t \in WinningTriples : UniformTriple(nth(history, n), t, "X")
               /\ \E t \in WinningTriples : UniformTriple(nth(history, n), t, "O"))
    /\ status[1] = "Winner: " =>
          status[2] # (IF IsEven(currentMove) THEN "X" ELSE "O")

\* O has won with move 6 and the won entry is displayed.
C18_Witness ==
    /\ calculateWinner(currentSquares) = "O"
    /\ currentMove = 6
    /\ status = <<"Winner: ", "O">>
    /\ Accepted(event)

\* The displayed snapshot is full and has no winner.
Drawn ==
    /\ \A c \in Cells : currentSquares[c] # null
    /\ calculateWinner(currentSquares) = null

\* C19: on a full board without a winner every click is rejected and
\* changes nothing, the status line reads "Next player: O", and only jumpTo
\* changes the state.
C19_DrawHandling ==
    /\ [](Drawn =>
            /\ currentMove = 9
            /\ status = <<"Next player: ", "O">>
            /\ \A i \in Cells :
                  ~ENABLED HandleClickAccepted(i) /\ ENABLED HandleClickRejected(i)
            /\ \A n \in DOMAIN moves : ENABLED JumpTo(moves[n].onClick))
    /\ [][Drawn =>
            /\ event'.type \in {"click", "jumpTo"}
            /\ event'.onPlay = <<>>
            /\ history' = history
            /\ event'.type = "click" => currentMove' = currentMove]_vars

\* A click on the drawn board that did nothing.
C19_Witness ==
    /\ Drawn
    /\ event.type = "click"
    /\ event.onPlay = <<>>
    /\ Len(history) = 10

\* C14: history and currentMove are replaced together, in the one render
\* that follows the handler; a click or a history-entry click is handled
\* only when no setter value is waiting, and then the rendered state shows
\* the whole effect of the interaction before it.
C14_InteractionsAtomic ==
    /\ [][history' # history =>
            /\ currentMove' = Len(history') - 1
            /\ currentMove' = currentMove + 1
            /\ queued' = NoUpdates]_vars
    /\ [][event' # event => (pc = "idle" /\ queued = NoUpdates)]_vars
    /\ [](pc = "idle" =>
            /\ queued = NoUpdates
            /\ currentMove \in 0..(Len(history) - 1)
            /\ Accepted(event) =>
                  /\ currentMove = Len(history) - 1
                  /\ currentSquares = event.onPlay[1].squares
            /\ event.type = "jumpTo" => currentMove = event.arg)

\* Both setters of handlePlay have been called and nothing is rendered yet:
\* a branch from index 1 of a 4-entry history waits to replace it.
C14_Witness ==
    /\ pc = "render"
    /\ queued.history # <<>>
    /\ queued.currentMove = <<2>>
    /\ Len(history) = 4
    /\ currentMove = 1

====
